---- MODULE Spec2Model ----
(***************************************************************************)
(* The coerce_any_ref_to_any late lint pass                                *)
(* (clippy_lints/src/coerce_any_ref_to_any.rs): check_expr, is_dyn_any,    *)
(* and the deref chain that check_expr consumes.                           *)
(*                                                                         *)
(* Types are sequences of constructors ending in a base type:              *)
(*   <<"Ref", "Box", "DynAny">>  is  &Box<dyn Any>.                        *)
(* Option<T> is a sequence of length at most one.                          *)
(***************************************************************************)
EXTENDS Integers, Sequences, FiniteSets, TLC

VARIABLES tcx, program, active, fr

vars == <<tcx, program, active, fr>>

(* ------------------------------ bounds -------------------------------- *)

\* Largest number of Ref/Box layers of a declared type in the universe.
MaxWrap == 3

(* --------------------------- Option<T> -------------------------------- *)

None == <<>>

Some(v) == <<v>>

(* ------------------------- type environment --------------------------- *)

Wrappers == {"Ref", "Box"}

DynBases == {"DynAny", "DynAnySend", "DynBoundAny", "DynDebug"}

\* i32 and () have no Deref impl; Loop derefs to itself; Ping and Pong deref
\* to each other.
Bases == DynBases \cup {"i32", "unit", "Loop", "Ping", "Pong"}

AnyDefId == "core::any::Any"

\* The existential predicates of a trait object: kind is the
\* ExistentialPredicate variant, bound says whether the binder has bound
\* variables (no_bound_vars() is None).
Pred(kind, def_id, bound) == [kind |-> kind, def_id |-> def_id, bound |-> bound]

Traits(base) ==
    CASE base = "DynAny"      -> {Pred("Trait", AnyDefId, FALSE)}
      [] base = "DynAnySend"  -> {Pred("AutoTrait", "core::marker::Send", FALSE),
                                  Pred("Trait", AnyDefId, FALSE)}
      [] base = "DynBoundAny" -> {Pred("Trait", AnyDefId, TRUE)}
      [] base = "DynDebug"    -> {Pred("Trait", "core::fmt::Debug", FALSE)}
      [] OTHER                -> {}

\* ty.kind() is ty::Dynamic
IsDynamic(ty) == Len(ty) = 1 /\ ty[1] \in DynBases

\* ty.kind() is ty::Ref
IsRef(ty) == Len(ty) > 1 /\ ty[1] = "Ref"

\* tcx.is_diagnostic_item(sym::Any, def_id): the registry may hold no item
\* for the name, and then nothing matches.
IsDiagnosticItem(t, def_id) == t.any_item = Some(def_id)

is_dyn_any_NoBinderCheck(t, ty) ==
    /\ IsDynamic(ty)
    /\ \E binder \in Traits(ty[1]) :
          /\ binder.kind = "Trait"
          /\ IsDiagnosticItem(t, binder.def_id)

is_dyn_any(t, ty) ==
    /\ IsDynamic(ty)
    /\ \E binder \in Traits(ty[1]) :
          /\ ~binder.bound
          /\ binder.kind = "Trait"
          /\ IsDiagnosticItem(t, binder.def_id)

(* ---------------------------- deref chain ----------------------------- *)

\* Step bound of the chain.
DerefLimit == 6

\* One indirection-removal step: <T as Deref>::Target, None when T has no
\* Deref impl.
DerefTarget(ty) ==
    IF ty[1] \in Wrappers THEN Some(Tail(ty))
    ELSE IF ty = <<"Loop">> THEN Some(<<"Loop">>)
    ELSE IF ty = <<"Ping">> THEN Some(<<"Pong">>)
    ELSE IF ty = <<"Pong">> THEN Some(<<"Ping">>)
    ELSE None

Successor_NoLimit(ty, yielded) ==
    LET t == DerefTarget(ty)
    IN  IF t = None \/ t = Some(ty) THEN None ELSE t

\* The element the chain yields after ty, `yielded` elements having been
\* produced: none once the step bound is reached, none when ty has no
\* further indirection or is a fixed point of it.
Successor(ty, yielded) ==
    IF yielded >= DerefLimit THEN None
    ELSE LET t == DerefTarget(ty)
         IN  IF t = None \/ t = Some(ty) THEN None ELSE t

\* deref_chain(cx, ty): the iterator's first element is ty itself.  The
\* lint's documented fix of `&x`, x: Box<dyn Any>, is `&*x` with
\* deref_count = depth for an address-of: the target one step away from the
\* referent type sits at index 1 of the enumerated chain.
deref_chain(ty) == Some(ty)

RECURSIVE ChainFrom(_, _)
ChainFrom(it, yielded) ==
    IF it = None THEN <<>>
    ELSE <<it[1]>> \o ChainFrom(Successor(it[1], yielded + 1), yielded + 1)

\* The whole sequence deref_chain(ty) yields.
DerefChain(ty) == ChainFrom(deref_chain(ty), 0)

(* ---------------------------- expressions ----------------------------- *)

\* An expression node: its ExprKind ("AddrOf" or anything else, "Path"), its
\* unadjusted type, its adjusted type, and the source text of the referent
\* (AddrOf) or of the whole expression (otherwise).
Expr(kind, expr_ty, adj_ty, src) ==
    [kind |-> kind, expr_ty |-> expr_ty, adj_ty |-> adj_ty, src |-> src]

WrapStacks == UNION {[1..k -> Wrappers] : k \in 0..MaxWrap}

Types == {w \o <<b>> : w \in WrapStacks, b \in Bases}

Sized(ty) == ~IsDynamic(ty)

\* The adjusted types the type checker can give an expression of type ty:
\* none, an auto-ref, and for a reference an unsizing of the referent to a
\* trait object, an upcast between trait objects, or a deref coercion.
Adjust(ty) ==
    {ty, <<"Ref">> \o ty}
    \cup (IF IsRef(ty) /\ Sized(Tail(ty))
          THEN {<<"Ref", d>> : d \in DynBases} ELSE {})
    \cup (IF ty = <<"Ref", "DynAnySend">> THEN {<<"Ref", "DynAny">>} ELSE {})
    \cup (IF IsRef(ty)
          THEN {<<"Ref">> \o SubSeq(ty, i, Len(ty)) : i \in 2..Len(ty)}
          ELSE {})

Exprs ==
    UNION {
        {Expr("Path", t, a, <<"r">>) : a \in Adjust(t)}
        \cup (IF IsRef(t) THEN {Expr("AddrOf", t, a, <<"v">>) : a \in Adjust(t)}
              ELSE {})
      : t \in Types}

RefAny == <<"Ref", "DynAny">>

BoxAny == <<"Box", "DynAny">>

\* The expression nodes of tests/ui/coerce_any_ref_to_any.rs, main:
\* `&x`, `ref_x`, `&42`, `&Box::new(())`, `&**ref_x`, `&*x`, and the
\* operands `x`, `*x`, `*ref_x`.
TestProgram ==
    { Expr("AddrOf", <<"Ref">> \o BoxAny, RefAny, <<"x">>),
      Expr("Path", <<"Ref">> \o BoxAny, RefAny, <<"ref_x">>),
      Expr("AddrOf", <<"Ref", "i32">>, RefAny, <<"42">>),
      Expr("AddrOf", <<"Ref", "Box", "unit">>, RefAny, <<"Box::new(())">>),
      Expr("AddrOf", RefAny, RefAny, <<"*", "*", "ref_x">>),
      Expr("AddrOf", RefAny, RefAny, <<"*", "x">>),
      Expr("Path", BoxAny, BoxAny, <<"x">>),
      Expr("Path", <<"DynAny">>, <<"DynAny">>, <<"*", "x">>),
      Expr("Path", BoxAny, BoxAny, <<"*", "ref_x">>) }

\* e.span's source text
ExprText(e) == IF e.kind = "AddrOf" THEN <<"&">> \o e.src ELSE e.src

\* snippet(cx, span, "x"): the span's source text, "x" when the source map
\* has none.
snippet(t, text) == IF t.src_avail THEN text ELSE <<"x">>

\* str::repeat("*", n)
Repeat(n) == [i \in 1..n |-> "*"]

\* The expression nodes of the crate being linted: the UI test's, or any
\* node of the bounded universe.
Nodes(crate) == IF crate = "ui_test" THEN TestProgram ELSE Exprs

(* ------------------------------ state --------------------------------- *)

Workers == {"w1", "w2"}

\* A worker's frame of check_expr: its position, the expression, the chain
\* iterator (next element and enumerate counter), the last enumerated item,
\* the diagnostic, and the step (1..7) at which the call returned.
IdleFrame ==
    [pc |-> "idle", e |-> None, it |-> None, idx |-> 0, last |-> None,
     out |-> None, ret |-> 0, fix_of |-> None]

TypeEnvs == [any_item : {None, Some(AnyDefId)}, src_avail : BOOLEAN]

Init ==
    /\ tcx \in TypeEnvs
    /\ program = "any"
    /\ active = {"w1"}
    /\ fr = [w \in Workers |-> IdleFrame]

\* Two workers of the host driver over the nodes of the UI test.
ParInit ==
    /\ tcx \in TypeEnvs
    /\ program = "ui_test"
    /\ active = Workers
    /\ fr = [w \in Workers |-> IdleFrame]

\* check_expr returns at step `step` with diagnostic `out`; the frame's
\* locals are gone.
Return(f, step, out) ==
    [f EXCEPT !.pc = "done", !.it = None, !.idx = 0, !.last = None,
              !.out = out, !.ret = step]

Enter(e, fix_of) ==
    [IdleFrame EXCEPT !.pc = "coerced", !.e = Some(e), !.fix_of = fix_of]

\* The host driver calls check_expr on a node of the program.
Visit(w) ==
    /\ w \in active
    /\ fr[w].pc = "idle"
    /\ \E e \in Nodes(program) : fr' = [fr EXCEPT ![w] = Enter(e, None)]
    /\ UNCHANGED <<tcx, program, active>>

\* The call has returned and the host has taken its diagnostic, if any.
Collect(w) ==
    /\ fr[w].pc = "done"
    /\ fr' = [fr EXCEPT ![w] = IdleFrame]
    /\ UNCHANGED <<tcx, program, active>>

\* Lines 43-52: the adjusted type is a reference to dyn Any.
CheckCoerced(w) ==
    /\ fr[w].pc = "coerced"
    /\ LET f == fr[w]
           coerced_ty == f.e[1].adj_ty
       IN  fr' = [fr EXCEPT ![w] =
                 IF ~IsRef(coerced_ty) THEN Return(f, 1, None)
                 ELSE IF ~is_dyn_any(tcx, Tail(coerced_ty)) THEN Return(f, 2, None)
                 ELSE [f EXCEPT !.pc = "declared"]]
    /\ UNCHANGED <<tcx, program, active>>

Step4Stops_Never(t, expr_ref_ty) == FALSE

\* Lines 58-61: "... but only due to coercion ...": stop when the declared
\* referent type is dyn Any already.
Step4Stops(t, expr_ref_ty) == is_dyn_any(t, expr_ref_ty)

\* Lines 54-63: the declared type is a reference, and not to dyn Any; then
\* deref_chain(cx, expr_ref_ty).enumerate() is created.
CheckDeclared(w) ==
    /\ fr[w].pc = "declared"
    /\ LET f == fr[w]
           expr_ty == f.e[1].expr_ty
       IN  fr' = [fr EXCEPT ![w] =
                 IF ~IsRef(expr_ty) THEN Return(f, 3, None)
                 ELSE IF Step4Stops(tcx, Tail(expr_ty)) THEN Return(f, 4, None)
                 ELSE [f EXCEPT !.pc = "chain",
                                !.it = deref_chain(Tail(expr_ty)),
                                !.idx = 0, !.last = None]]
    /\ UNCHANGED <<tcx, program, active>>

EnumerateItem_OneBased(idx, ty) == <<idx + 1, ty>>

\* Iterator::enumerate: the item paired with its 0-based index.
EnumerateItem(idx, ty) == <<idx, ty>>

\* Line 63, one round of `.last()`: it takes the next enumerated item and
\* keeps it.
ChainNext(w) ==
    /\ fr[w].pc = "chain"
    /\ fr[w].it # None
    /\ LET f == fr[w]
       IN  fr' = [fr EXCEPT ![w] =
                 [f EXCEPT !.last = Some(EnumerateItem(f.idx, f.it[1])),
                           !.idx = f.idx + 1,
                           !.it = Successor(f.it[1], f.idx + 1)]]
    /\ UNCHANGED <<tcx, program, active>>

Step6Stops_Never(t, target) == FALSE

\* Lines 66-68: "... and it also *derefs* to `dyn Any` ...".
Step6Stops(t, target) == ~is_dyn_any(t, target)

LastOf_Shared(w) ==
    IF \E v \in Workers \ {w} : fr[v].last # None
    THEN fr[CHOOSE v \in Workers \ {w} : fr[v].last # None].last
    ELSE fr[w].last

\* The (depth, target) that `.last()` returned to this call.
LastOf(w) == fr[w].last

\* Lines 63-68: the chain is exhausted; stop when it was empty, stop when
\* its last element is not dyn Any.
ChainDone(w) ==
    /\ fr[w].pc = "chain"
    /\ fr[w].it = None
    /\ LET f == fr[w]
       IN  fr' = [fr EXCEPT ![w] =
                 IF LastOf(w) = None THEN Return(f, 5, None)
                 ELSE IF Step6Stops(tcx, LastOf(w)[1][2]) THEN Return(f, 6, None)
                 ELSE [f EXCEPT !.pc = "emit", !.last = LastOf(w)]]
    /\ UNCHANGED <<tcx, program, active>>

DerefCount_AlwaysPlusOne(kind, depth) == depth + 1

DerefCount_OffByOne(kind, depth) ==
    IF kind = "AddrOf" THEN (IF depth = 0 THEN 0 ELSE depth - 1) ELSE depth

\* Lines 71-75: deref_count; an address-of already supplies one layer.
DerefCount(kind, depth) == IF kind = "AddrOf" THEN depth ELSE depth + 1

SuggSpanText_Whole(e) == ExprText(e)

\* Lines 71-75: the text of the span the suggestion wraps: the referent's
\* for an address-of, the whole expression's otherwise.
SuggSpanText(e) == IF e.kind = "AddrOf" THEN e.src ELSE ExprText(e)

\* Lines 76-84: the arguments of span_lint_and_sugg.
Diagnostic(t, e, depth) ==
    [lint |-> "COERCE_ANY_REF_TO_ANY",
     span |-> ExprText(e),
     msg_ty |-> e.expr_ty,
     help |-> "consider dereferencing",
     sugg |-> <<"&">> \o Repeat(DerefCount(e.kind, depth))
                      \o snippet(t, SuggSpanText(e)),
     applicability |-> "MaybeIncorrect"]

\* Lines 70-84: "... that's probably not intended."
Emit(w) ==
    /\ fr[w].pc = "emit"
    /\ LET f == fr[w]
       IN  fr' = [fr EXCEPT ![w] =
                 Return(f, 7, Some(Diagnostic(tcx, f.e[1], f.last[1][1])))]
    /\ UNCHANGED <<tcx, program, active>>

(* ----------------------- applying the suggestion ---------------------- *)

TypeError == <<"{type error}">>

\* The type of `*place`: the built-in or overloaded dereference of ty.
RECURSIVE DerefN(_, _)
DerefN(ty, n) ==
    IF n = 0 THEN ty
    ELSE IF ty = TypeError \/ DerefTarget(ty) = None THEN TypeError
    ELSE DerefN(DerefTarget(ty)[1], n - 1)

\* Number of `*` in a suggestion built over `snip`.
StarCount(sugg, snip) == Len(sugg) - 1 - Len(snip)

\* The expression that replaces e when diagnostic d's suggestion is
\* applied: `&` of deref_count dereferences of the wrapped expression, in
\* the same context, so with the same expected type.
Rewritten(t, e, d) ==
    LET snip == snippet(t, SuggSpanText(e))
        n == StarCount(d.sugg, snip)
        inner_ty == IF e.kind = "AddrOf" THEN Tail(e.expr_ty) ELSE e.expr_ty
        ty == DerefN(inner_ty, n)
    IN  Expr("AddrOf",
             IF ty = TypeError THEN TypeError ELSE <<"Ref">> \o ty,
             e.adj_ty,
             Tail(d.sugg))

\* The suggestion of a finished call is applied and the driver checks the
\* rewritten node.  A suggestion built over the placeholder is not the
\* expression's text and is not applied.
ApplyFix(w) ==
    /\ w \in active
    /\ fr[w].pc = "done"
    /\ fr[w].out # None
    /\ tcx.src_avail
    /\ fr' = [fr EXCEPT ![w] =
                 Enter(Rewritten(tcx, fr[w].e[1], fr[w].out[1]), fr[w].e)]
    /\ UNCHANGED <<tcx, program, active>>

(* --------------------------- specification ---------------------------- *)

Step(w) ==
    \/ CheckCoerced(w)
    \/ CheckDeclared(w)
    \/ ChainNext(w)
    \/ ChainDone(w)
    \/ Emit(w)

Next ==
    \E w \in Workers :
        \/ Visit(w)
        \/ Collect(w)
        \/ ApplyFix(w)
        \/ CheckCoerced(w)
        \/ CheckDeclared(w)
        \/ ChainNext(w)
        \/ ChainDone(w)
        \/ Emit(w)

Spec == Init /\ [][Next]_vars

\* check_expr is synchronous: a call that has started keeps running.
FairSpec == Init /\ [][Next]_vars /\ \A w \in Workers : WF_vars(Step(w))

ParSpec == ParInit /\ [][Next]_vars

(* ------------------------------ claims -------------------------------- *)

Done(w) == fr[w].pc = "done"

Flagged(w) == Done(w) /\ fr[w].out # None

\* The declared referent type R2 of a worker's expression.
R2(w) == Tail(fr[w].e[1].expr_ty)

\* The number of `*` in a flagged expression's suggestion.
Stars(w) ==
    StarCount(fr[w].out[1].sugg, snippet(tcx, SuggSpanText(fr[w].e[1])))

ShouldLint(t, e) ==
    /\ IsRef(e.adj_ty)
    /\ is_dyn_any(t, Tail(e.adj_ty))
    /\ IsRef(e.expr_ty)
    /\ ~is_dyn_any(t, Tail(e.expr_ty))
    /\ LET c == DerefChain(Tail(e.expr_ty))
       IN  Len(c) > 0 /\ is_dyn_any(t, c[Len(c)])

\* C1: a finished call of check_expr has emitted a diagnostic if and only
\* if the adjusted type is a reference to dyn Any, the declared type is a
\* reference to something that is not dyn Any, and the last element of the
\* declared referent's deref chain exists and is dyn Any.
C1_DiagnosticIff ==
    \A w \in Workers :
        Done(w) => ((fr[w].out # None) <=> ShouldLint(tcx, fr[w].e[1]))

C1_Witness ==
    \E w \in Workers :
        /\ Flagged(w)
        /\ fr[w].e[1].expr_ty = <<"Ref", "Box", "Box", "DynAny">>

\* C2: a finished call on an expression whose declared type equals its
\* adjusted type has emitted no diagnostic.
C2_NoConversionNoDiagnostic ==
    \A w \in Workers :
        (Done(w) /\ fr[w].e[1].expr_ty = fr[w].e[1].adj_ty) => fr[w].out = None

C2_Witness ==
    \E w \in Workers :
        /\ Done(w)
        /\ fr[w].e[1].expr_ty = RefAny
        /\ fr[w].e[1].adj_ty = RefAny
        /\ fr[w].ret = 4

\* R2 unwraps through exactly k steps to reach dyn Any.
ReachesAnyIn(t, ty, k) ==
    /\ DerefN(ty, k) # TypeError
    /\ is_dyn_any(t, DerefN(ty, k))
    /\ \A j \in 0..(k - 1) : ~is_dyn_any(t, DerefN(ty, j))

PastStep2(w) ==
    \/ fr[w].pc \in {"declared", "chain", "emit"}
    \/ Done(w) /\ fr[w].ret > 2

\* C4: is_dyn_any holds of exactly the trait objects with an unbound
\* single-trait `Any` predicate (dyn Any, dyn Any + Send) and only when the
\* Any diagnostic item resolves; it fails for non-dynamic types, for an Any
\* predicate with a bound variable and for a trait object without Any.
C4_Classifier ==
    \A w \in Workers :
        (fr[w].pc \notin {"idle", "coerced"} /\ IsRef(fr[w].e[1].adj_ty)) =>
            (PastStep2(w) <=>
                /\ tcx.any_item = Some(AnyDefId)
                /\ Tail(fr[w].e[1].adj_ty) \in {<<"DynAny">>, <<"DynAnySend">>})

C4_Witness ==
    \E w \in Workers :
        /\ Done(w)
        /\ fr[w].ret = 2
        /\ tcx.any_item = Some(AnyDefId)
        /\ fr[w].e[1].adj_ty = <<"Ref", "DynBoundAny">>

\* C5: an emitted diagnostic is located at the whole expression, and its
\* replacement text is `&`, deref_count copies of `*`, and the source text
\* of the referent (address-of) or of the whole expression (otherwise), or
\* the placeholder `x` when the source text is unavailable.
C5_ReplacementText ==
    \A w \in Workers :
        Flagged(w) =>
            LET e == fr[w].e[1]
                d == fr[w].out[1]
                \* e.src is the referent's text of an address-of and the
                \* whole text of any other expression
                snip == IF tcx.src_avail THEN e.src ELSE <<"x">>
                n == Len(d.sugg) - 1 - Len(snip)
                deref_count == IF e.kind = "AddrOf"
                               THEN Len(DerefChain(R2(w))) - 1
                               ELSE Len(DerefChain(R2(w)))
            IN  /\ n = deref_count
                /\ d.sugg = <<"&">> \o [i \in 1..n |-> "*"] \o snip
                /\ d.span = (IF e.kind = "AddrOf" THEN <<"&">> ELSE <<>>) \o e.src

C5_Witness ==
    \E w \in Workers :
        /\ Flagged(w)
        /\ ~tcx.src_avail
        /\ fr[w].out[1].sugg = <<"&", "*", "x">>

Busy(w) == fr[w].pc \in {"coerced", "declared", "chain", "emit"}

\* C6: every started call of check_expr returns, also on a declared
\* referent type whose indirection-removal is cyclic, and the call never
\* takes more than DerefLimit elements of the chain.
C6_Terminates ==
    /\ [](\A w \in Workers : fr[w].idx <= DerefLimit)
    /\ \A w \in Workers : Busy(w) ~> Done(w)

C6_Witness ==
    \E w \in Workers :
        /\ fr[w].pc = "chain"
        /\ fr[w].it = None
        /\ fr[w].idx = DerefLimit
        /\ R2(w) = <<"Ping">>

\* C7: two calls on the same expression end with the same outcome whatever
\* was visited before them and whatever the other worker does meanwhile,
\* and no step changes the type environment or the program.
C7_OrderIndependent ==
    /\ [](\A a, b \in Workers :
            (Done(a) /\ Done(b) /\ fr[a].e = fr[b].e) =>
                (fr[a].out = fr[b].out /\ fr[a].ret = fr[b].ret))
    /\ [][tcx' = tcx /\ program' = program]_vars

C7_Witness ==
    /\ Flagged("w1")
    /\ Flagged("w2")
    /\ fr["w1"].e = fr["w2"].e
    /\ fr["w1"].fix_of = None
    /\ fr["w2"].fix_of = None

====
